---------------------------- MODULE Spec2Model ----------------------------
(***************************************************************************)
(* The Mini Blog service of first-steps/main.py: an in-memory list of      *)
(* posts (BLOG_POST) and the request handlers that read and change it.     *)
(*                                                                         *)
(* A Python str is a tuple of Unicode code points, so that lower(), the    *)
(* substring test, the length bounds and the ordering of titles are        *)
(* computed and not assumed.  Python's None and a field the request body   *)
(* did not set are two tuples that are no string (no code point is        *)
(* negative).                                                              *)
(***************************************************************************)
EXTENDS Integers, Sequences, FiniteSets, TLC

VARIABLES
  BLOG_POST,   \* the module-level list of post dicts
  request,     \* the request being served: the operation and its parameters
  response,    \* what the handler produced: status code and body
  idsSeen      \* history: every id a post of the store has ever had

vars == <<BLOG_POST, request, response, idsSeen>>

---------------------------------------------------------------------------
(* Python values *)

None == << -1 >>
Unset == << -2 >>

IsStr(v) == v # None /\ v # Unset

Min(a, b) == IF a <= b THEN a ELSE b

Reverse(s) == [i \in 1..Len(s) |-> s[Len(s) + 1 - i]]

\* str.lower() on one code point: ASCII A-Z and the Latin-1 capitals (the
\* code points the titles and queries of this model are written in).
LowerChar(c) ==
  IF c \in 65..90 \/ (c \in 192..222 /\ c # 215) THEN c + 32 ELSE c

\* str.lower()
StrLower(s) == [i \in 1..Len(s) |-> LowerChar(s[i])]

\* sub in s
Contains(sub, s) ==
  \E i \in 0..(Len(s) - Len(sub)) : SubSeq(s, i + 1, i + Len(sub)) = sub

\* a < b on str: by code point, a proper prefix first
RECURSIVE StrLess(_, _)
StrLess(a, b) ==
  IF b = <<>> THEN FALSE
  ELSE IF a = <<>> THEN TRUE
  ELSE IF Head(a) # Head(b) THEN Head(a) < Head(b)
  ELSE StrLess(Tail(a), Tail(b))

---------------------------------------------------------------------------
(* The seed data and the prohibited words *)

BLOG_POST_SEED ==
  <<
    \* 1: "Primero Post" / "Este es mi primer post en FastAPI."
    [id |-> 1,
     title |-> <<80, 114, 105, 109, 101, 114, 111, 32, 80, 111, 115, 116>>,
     content |-> <<69, 115, 116, 101, 32, 101, 115, 32, 109, 105, 32, 112, 114, 105, 109,
                 101, 114, 32, 112, 111, 115, 116, 32, 101, 110, 32, 70, 97, 115, 116, 65,
                 80, 73, 46>>],
    \* 2: "Segundo Post" / "Aprendiendo FastAPI es divertido!"
    [id |-> 2,
     title |-> <<83, 101, 103, 117, 110, 100, 111, 32, 80, 111, 115, 116>>,
     content |-> <<65, 112, 114, 101, 110, 100, 105, 101, 110, 100, 111, 32, 70, 97, 115,
                 116, 65, 80, 73, 32, 101, 115, 32, 100, 105, 118, 101, 114, 116, 105, 100,
                 111, 33>>],
    \* 3: "Tercer Post" / "Estoy emocionado por construir mas con FastAPI!"
    [id |-> 3,
     title |-> <<84, 101, 114, 99, 101, 114, 32, 80, 111, 115, 116>>,
     content |-> <<161, 69, 115, 116, 111, 121, 32, 101, 109, 111, 99, 105, 111, 110, 97,
                 100, 111, 32, 112, 111, 114, 32, 99, 111, 110, 115, 116, 114, 117, 105,
                 114, 32, 109, 225, 115, 32, 99, 111, 110, 32, 70, 97, 115, 116, 65, 80, 73,
                 33>>],
    \* 4: "Cuarto Post" / "Explorando las rutas de FastAPI."
    [id |-> 4,
     title |-> <<67, 117, 97, 114, 116, 111, 32, 80, 111, 115, 116>>,
     content |-> <<69, 120, 112, 108, 111, 114, 97, 110, 100, 111, 32, 108, 97, 115, 32,
                 114, 117, 116, 97, 115, 32, 100, 101, 32, 70, 97, 115, 116, 65, 80, 73,
                 46>>],
    \* 5: "Quinto Post" / "Manejo de datos con Pydantic."
    [id |-> 5,
     title |-> <<81, 117, 105, 110, 116, 111, 32, 80, 111, 115, 116>>,
     content |-> <<77, 97, 110, 101, 106, 111, 32, 100, 101, 32, 100, 97, 116, 111, 115, 32,
                 99, 111, 110, 32, 80, 121, 100, 97, 110, 116, 105, 99, 46>>],
    \* 6: "Sexto Post" / "Validacion de modelos en FastAPI."
    [id |-> 6,
     title |-> <<83, 101, 120, 116, 111, 32, 80, 111, 115, 116>>,
     content |-> <<86, 97, 108, 105, 100, 97, 99, 105, 243, 110, 32, 100, 101, 32, 109, 111,
                 100, 101, 108, 111, 115, 32, 101, 110, 32, 70, 97, 115, 116, 65, 80, 73,
                 46>>],
    \* 7: "Septimo Post" / "Parametros de consulta y ruta."
    [id |-> 7,
     title |-> <<83, 233, 112, 116, 105, 109, 111, 32, 80, 111, 115, 116>>,
     content |-> <<80, 97, 114, 225, 109, 101, 116, 114, 111, 115, 32, 100, 101, 32, 99,
                 111, 110, 115, 117, 108, 116, 97, 32, 121, 32, 114, 117, 116, 97, 46>>],
    \* 8: "Octavo Post" / "Manejo de errores HTTP."
    [id |-> 8,
     title |-> <<79, 99, 116, 97, 118, 111, 32, 80, 111, 115, 116>>,
     content |-> <<77, 97, 110, 101, 106, 111, 32, 100, 101, 32, 101, 114, 114, 111, 114,
                 101, 115, 32, 72, 84, 84, 80, 46>>],
    \* 9: "Noveno Post" / "Seguridad y autenticacion."
    [id |-> 9,
     title |-> <<78, 111, 118, 101, 110, 111, 32, 80, 111, 115, 116>>,
     content |-> <<83, 101, 103, 117, 114, 105, 100, 97, 100, 32, 121, 32, 97, 117, 116,
                 101, 110, 116, 105, 99, 97, 99, 105, 243, 110, 46>>],
    \* 10: "Decimo Post" / "Despliegue de aplicaciones FastAPI."
    [id |-> 10,
     title |-> <<68, 233, 99, 105, 109, 111, 32, 80, 111, 115, 116>>,
     content |-> <<68, 101, 115, 112, 108, 105, 101, 103, 117, 101, 32, 100, 101, 32, 97,
                 112, 108, 105, 99, 97, 99, 105, 111, 110, 101, 115, 32, 70, 97, 115, 116,
                 65, 80, 73, 46>>],
    \* 11: "Onceavo Post" / "Integracion con bases de datos."
    [id |-> 11,
     title |-> <<79, 110, 99, 101, 97, 118, 111, 32, 80, 111, 115, 116>>,
     content |-> <<73, 110, 116, 101, 103, 114, 97, 99, 105, 243, 110, 32, 99, 111, 110, 32,
                 98, 97, 115, 101, 115, 32, 100, 101, 32, 100, 97, 116, 111, 115, 46>>],
    \* 12: "Doceavo Post" / "Pruebas unitarias en FastAPI."
    [id |-> 12,
     title |-> <<68, 111, 99, 101, 97, 118, 111, 32, 80, 111, 115, 116>>,
     content |-> <<80, 114, 117, 101, 98, 97, 115, 32, 117, 110, 105, 116, 97, 114, 105, 97,
                 115, 32, 101, 110, 32, 70, 97, 115, 116, 65, 80, 73, 46>>],
    \* 13: "Treceavo Post" / "Documentacion automatica con OpenAPI."
    [id |-> 13,
     title |-> <<84, 114, 101, 99, 101, 97, 118, 111, 32, 80, 111, 115, 116>>,
     content |-> <<68, 111, 99, 117, 109, 101, 110, 116, 97, 99, 105, 243, 110, 32, 97, 117,
                 116, 111, 109, 225, 116, 105, 99, 97, 32, 99, 111, 110, 32, 79, 112, 101,
                 110, 65, 80, 73, 46>>],
    \* 14: "Catorceavo Post" / "Middleware en FastAPI."
    [id |-> 14,
     title |-> <<67, 97, 116, 111, 114, 99, 101, 97, 118, 111, 32, 80, 111, 115, 116>>,
     content |-> <<77, 105, 100, 100, 108, 101, 119, 97, 114, 101, 32, 101, 110, 32, 70, 97,
                 115, 116, 65, 80, 73, 46>>],
    \* 15: "Quinceavo Post" / "Dependencias e inyeccion."
    [id |-> 15,
     title |-> <<81, 117, 105, 110, 99, 101, 97, 118, 111, 32, 80, 111, 115, 116>>,
     content |-> <<68, 101, 112, 101, 110, 100, 101, 110, 99, 105, 97, 115, 32, 101, 32,
                 105, 110, 121, 101, 99, 99, 105, 243, 110, 46>>],
    \* 16: "Dieciseisavo Post" / "WebSockets con FastAPI."
    [id |-> 16,
     title |-> <<68, 105, 101, 99, 105, 115, 101, 105, 115, 97, 118, 111, 32, 80, 111, 115,
               116>>,
     content |-> <<87, 101, 98, 83, 111, 99, 107, 101, 116, 115, 32, 99, 111, 110, 32, 70,
                 97, 115, 116, 65, 80, 73, 46>>],
    \* 17: "Diecisieteavo Post" / "Tareas en segundo plano."
    [id |-> 17,
     title |-> <<68, 105, 101, 99, 105, 115, 105, 101, 116, 101, 97, 118, 111, 32, 80, 111,
               115, 116>>,
     content |-> <<84, 97, 114, 101, 97, 115, 32, 101, 110, 32, 115, 101, 103, 117, 110,
                 100, 111, 32, 112, 108, 97, 110, 111, 46>>],
    \* 18: "Dieciochoavo Post" / "Generacion de clientes."
    [id |-> 18,
     title |-> <<68, 105, 101, 99, 105, 111, 99, 104, 111, 97, 118, 111, 32, 80, 111, 115,
               116>>,
     content |-> <<71, 101, 110, 101, 114, 97, 99, 105, 243, 110, 32, 100, 101, 32, 99, 108,
                 105, 101, 110, 116, 101, 115, 46>>],
    \* 19: "Diecinueveavo Post" / "Optimizacion de rendimiento."
    [id |-> 19,
     title |-> <<68, 105, 101, 99, 105, 110, 117, 101, 118, 101, 97, 118, 111, 32, 80, 111,
               115, 116>>,
     content |-> <<79, 112, 116, 105, 109, 105, 122, 97, 99, 105, 243, 110, 32, 100, 101,
                 32, 114, 101, 110, 100, 105, 109, 105, 101, 110, 116, 111, 46>>],
    \* 20: "Veinteavo Post" / "Comunidad y recursos de FastAPI."
    [id |-> 20,
     title |-> <<86, 101, 105, 110, 116, 101, 97, 118, 111, 32, 80, 111, 115, 116>>,
     content |-> <<67, 111, 109, 117, 110, 105, 100, 97, 100, 32, 121, 32, 114, 101, 99,
                 117, 114, 115, 111, 115, 32, 100, 101, 32, 70, 97, 115, 116, 65, 80, 73,
                 46>>]
  >>

PROHIBITED_WORDS ==
  <<
    <<115, 112, 97, 109>>,
    <<116, 111, 110, 116, 111>>,
    <<105, 100, 105, 111, 116, 97>>,
    <<98, 97, 115, 117, 114, 97>>,
    <<109, 97, 108, 111>>,
    <<101, 115, 116, 250, 112, 105, 100, 111>>,
    <<105, 110, 250, 116, 105, 108>>,
    <<102, 101, 111>>,
    <<104, 111, 114, 114, 105, 98, 108, 101>>
  >>

---------------------------------------------------------------------------
(* The request and response schemas *)

\* Field(min_length, max_length) on a str
LenIn(s, lo, hi) == Len(s) >= lo /\ Len(s) <= hi

\* Optional[str] = Field(None, min_length=lo, max_length=hi): absent, null,
\* or a text within the bounds
OptionalStrOk(v, lo, hi) == v = Unset \/ v = None \/ LenIn(v, lo, hi)

\* class Tag
TagValid(tag) == IsStr(tag.name) /\ LenIn(tag.name, 2, 30)

\* PostCreate.not_allowed_title: TRUE when the validator raises ValueError
not_allowed_title(value) ==
  \E w \in 1..Len(PROHIBITED_WORDS) :
    Contains(PROHIBITED_WORDS[w], StrLower(value))

\* The fields class PostCreate declares
PostCreateFields == {"title", "content", "tags"}

\* class PostCreate accepts the body; body.tags is the list of tags, empty
\* when the body set none (the default)
PostCreateValid(body) ==
  /\ IsStr(body.title)
  /\ LenIn(body.title, 3, 100)
  /\ ~ not_allowed_title(body.title)
  /\ OptionalStrOk(body.content, 10, 1000)
  /\ \A i \in 1..Len(body.tags) : TagValid(body.tags[i])

\* class PostUpdate accepts the body
PostUpdateValid(body) ==
  /\ OptionalStrOk(body.title, 3, 100)
  /\ OptionalStrOk(body.content, 10, 1000)

\* updated_post.model_dump(exclude_unset=True): the keys the body set
ModelDumpKeys(body) == {k \in {"title", "content"} : body[k] # Unset}

\* class PostPublic (PostBase plus id) accepts a post dict: title is a
\* required str; content, tags and author are optional
PostPublicValid(post) == IsStr(post.title)

\* class PostSummary accepts id and title
PostSummaryValid(post) == IsStr(post.title)

\* "Content not available", the default of PostBase.content
ContentDefault ==
  <<67, 111, 110, 116, 101, 110, 116, 32, 110, 111, 116, 32, 97, 118, 97, 105,
    108, 97, 98, 108, 101>>

\* The PostPublic object built from a post dict: missing keys take the
\* defaults of PostBase
PostPublicOf(post) ==
  [id |-> post.id,
   title |-> post.title,
   content |-> IF "content" \in DOMAIN post THEN post.content ELSE ContentDefault,
   tags |-> IF "tags" \in DOMAIN post THEN post.tags ELSE <<>>,
   author |-> IF "author" \in DOMAIN post THEN post.author ELSE None]

\* The pattern of the search parameter, ^[\w\s\p{P}\p{S}]+$, on Latin-1:
\* no control character but white space, and not the soft hyphen
QueryPatternOk(q) ==
  /\ Len(q) >= 1
  /\ \A i \in 1..Len(q) :
       \/ q[i] \in 9..13
       \/ q[i] \in 32..126
       \/ q[i] = 133
       \/ (q[i] >= 160 /\ q[i] # 173)

\* The Query(...) declarations of get_posts accept the parameters
GetPostsParamsValid(query, per_page, page, order_by, direction) ==
  /\ query = None \/ (LenIn(query, 3, 100) /\ QueryPatternOk(query))
  /\ per_page >= 1 /\ per_page <= 50
  /\ page >= 1
  /\ order_by \in {"id", "title"}
  /\ direction \in {"asc", "desc"}

\* Responses that carry no post
NotFound == [status |-> 404, body |-> "Post not found"]
Unprocessable == [status |-> 422, body |-> "validation error"]
ServerError == [status |-> 500, body |-> "Internal Server Error"]

---------------------------------------------------------------------------
(* get_posts: filter, count, clamp, sort, slice, flags *)

\* "if query:" a str given and not empty
QueryGiven(query) == query # None /\ query # <<>>

\* The list comprehension of the filter raises AttributeError when it calls
\* lower() on a title that is None
FilterRaises(posts, query) ==
  QueryGiven(query) /\ \E i \in 1..Len(posts) : ~ IsStr(posts[i].title)

\* results after the filter step: the posts whose lower-cased title holds
\* the lower-cased query, in store order
FilterPosts(posts, query) ==
  IF QueryGiven(query)
    THEN LET lowered == StrLower(query)
         IN  SelectSeq(posts, LAMBDA post : Contains(lowered, StrLower(post.title)))
    ELSE posts

\* ceil(total / per_page) if total > 0 else 0; the quotient of two small
\* integers is rounded up exactly
TotalPages(total, per_page) ==
  IF total > 0 THEN (total + per_page - 1) \div per_page ELSE 0

\* A page number taken from the request as it is
CurrentPageUnclamped(page, total_pages) == page

\* current_page: the requested page, at most the last one; 1 when there is
\* no page
CurrentPage(page, total_pages) ==
  IF total_pages = 0 THEN 1 ELSE Min(page, total_pages)

\* post[order_by] of a is less than post[order_by] of b
KeyLess(a, b, order_by) ==
  IF order_by = "id" THEN a.id < b.id ELSE StrLess(a.title, b.title)

\* Comparing the keys raises TypeError when a title is None; a sort of two
\* or more posts compares every one of them at least once
SortRaises(results, order_by) ==
  /\ order_by = "title"
  /\ Len(results) >= 2
  /\ \E i \in 1..Len(results) : ~ IsStr(results[i].title)

\* One step of a stable ascending sort: x, which came after every post of
\* sorted, goes before the first post whose key is greater than its own,
\* that is behind the posts, a prefix of sorted, whose key is not greater
InsertStable(sorted, x, order_by) ==
  LET before == Cardinality({i \in 1..Len(sorted) :
                               ~ KeyLess(x, sorted[i], order_by)})
  IN  SubSeq(sorted, 1, before) \o <<x>> \o SubSeq(sorted, before + 1, Len(sorted))

\* sorted(xs, key=...) ascending: stable
RECURSIVE SortAscending(_, _)
SortAscending(xs, order_by) ==
  IF xs = <<>> THEN <<>>
  ELSE InsertStable(SortAscending(SubSeq(xs, 1, Len(xs) - 1), order_by),
                    xs[Len(xs)], order_by)

\* A descending order got by reversing the ascending result: equal keys
\* come out in reverse store order
SortResultsReversing(results, order_by, direction) ==
  IF direction = "desc"
    THEN Reverse(SortAscending(results, order_by))
    ELSE SortAscending(results, order_by)

\* sorted(results, key=lambda post: post[order_by], reverse=direction == "desc"):
\* reverse=True sorts the reversed list and reverses the result, which keeps
\* posts of equal key in their order
SortResults(results, order_by, direction) ==
  IF direction = "desc"
    THEN Reverse(SortAscending(Reverse(results), order_by))
    ELSE SortAscending(results, order_by)

\* results[a:b] with 0 <= a <= b: the posts at 0-based positions a .. b-1 that
\* exist
Slice(s, a, b) == SubSeq(s, a + 1, Min(b, Len(s)))

\* A slice that starts one page too far
PageItemsSkipping(results, current_page, per_page, total_pages) ==
  IF total_pages = 0 THEN <<>>
  ELSE Slice(results, current_page * per_page, current_page * per_page + per_page)

\* items: the slice of the current page, empty when there are no pages
PageItems(results, current_page, per_page, total_pages) ==
  IF total_pages = 0 THEN <<>>
  ELSE LET start == (current_page - 1) * per_page
       IN  Slice(results, start, start + per_page)

\* A flag that is also set on the last page
HasNextInclusive(current_page, total_pages) == current_page <= total_pages

\* has_prev and has_next
HasPrev(current_page) == current_page > 1
HasNext(current_page, total_pages) == current_page < total_pages

\* PaginatedPost(...): the page descriptor built from the sorted results; the
\* construction raises ValidationError when an item is no PostPublic
PaginatedPost(sorted, total, query, per_page, page, order_by, direction) ==
  LET total_pages == TotalPages(total, per_page)
      current_page == CurrentPage(page, total_pages)
      items == PageItems(sorted, current_page, per_page, total_pages)
  IN  IF \E i \in 1..Len(items) : ~ PostPublicValid(items[i])
        THEN ServerError
        ELSE [status |-> 200,
              body |-> [page |-> current_page,
                        per_page |-> per_page,
                        total |-> total,
                        total_pages |-> total_pages,
                        has_prev |-> HasPrev(current_page),
                        has_next |-> HasNext(current_page, total_pages),
                        order_by |-> order_by,
                        direction |-> direction,
                        search |-> query,
                        items |-> [i \in 1..Len(items) |-> PostPublicOf(items[i])]]]

\* The response of GET /posts
GetPostsResponse(posts, query, per_page, page, order_by, direction) ==
  IF ~ GetPostsParamsValid(query, per_page, page, order_by, direction)
    THEN Unprocessable
  ELSE IF FilterRaises(posts, query) THEN ServerError
  ELSE LET results == FilterPosts(posts, query)
       IN  IF SortRaises(results, order_by) THEN ServerError
           ELSE PaginatedPost(SortResults(results, order_by, direction),
                              Len(results), query, per_page, page, order_by,
                              direction)

---------------------------------------------------------------------------
(* The handlers on one post *)

\* The position of the first post with this id, 0 when there is none: the
\* "for post in BLOG_POST: if post["id"] == post_id" of the handlers
FindIndex(posts, post_id) ==
  IF \E i \in 1..Len(posts) : posts[i].id = post_id
    THEN CHOOSE i \in 1..Len(posts) :
           /\ posts[i].id = post_id
           /\ \A j \in 1..(i - 1) : posts[j].id # post_id
    ELSE 0

\* d[k] = v on a dict
SetItem(d, k, v) ==
  IF k \in DOMAIN d THEN [d EXCEPT ![k] = v]
  ELSE [x \in DOMAIN d \cup {k} |-> IF x = k THEN v ELSE d[x]]

\* The response of GET /posts/{post_id}; the response model is
\* Union[PostPublic, PostSummary]
GetPostResponse(posts, post_id, include_content) ==
  LET i == FindIndex(posts, post_id)
  IN  IF post_id < 1 THEN Unprocessable
      ELSE IF i = 0 THEN NotFound
      ELSE IF ~ include_content
        THEN IF PostSummaryValid(posts[i])
               THEN [status |-> 200,
                     body |-> [id |-> posts[i].id, title |-> posts[i].title]]
               ELSE ServerError
      ELSE IF PostPublicValid(posts[i]) \/ PostSummaryValid(posts[i])
        THEN [status |-> 200, body |-> posts[i]]
        ELSE ServerError

\* The response of GET /posts/{post_id}/detail; no response model
GetPostDetailResponse(posts, post_id, include_content) ==
  LET i == FindIndex(posts, post_id)
  IN  IF i = 0 THEN NotFound
      ELSE IF include_content
        THEN [status |-> 200, body |-> [post |-> posts[i]]]
        ELSE [status |-> 200,
              body |-> [post |-> [id |-> posts[i].id, title |-> posts[i].title]]]

\* new_id = (BLOG_POST[-1]["id"] + 1) if BLOG_POST else 1
NewId(posts) == IF posts # <<>> THEN posts[Len(posts)].id + 1 ELSE 1

\* create_post: the store after the call and the response.  Building
\* new_post reads post.author; reading an attribute that class PostCreate
\* does not declare raises AttributeError, before the append.
CreatePost(posts, body) ==
  IF ~ PostCreateValid(body) THEN [posts |-> posts, response |-> Unprocessable]
  ELSE IF "author" \notin PostCreateFields
    THEN [posts |-> posts, response |-> ServerError]
  ELSE LET new_post == [id |-> NewId(posts),
                        title |-> body.title,
                        content |-> IF body.content = Unset THEN None
                                    ELSE body.content,
                        tags |-> body.tags,
                        author |-> None]
       IN  [posts |-> Append(posts, new_post),
            response |-> [status |-> 201, body |-> new_post]]

\* An update that writes both fields, None for the one the body left out
UpdatedPostOverwriting(post, body) ==
  SetItem(SetItem(post, "title", IF body.title = Unset THEN None ELSE body.title),
          "content", IF body.content = Unset THEN None ELSE body.content)

\* The post after update_post wrote the fields the body set
UpdatedPost(post, body) ==
  LET playload == ModelDumpKeys(body)
      titled == IF "title" \in playload
                  THEN SetItem(post, "title", body.title) ELSE post
  IN  IF "content" \in playload
        THEN SetItem(titled, "content", body.content) ELSE titled

\* update_post: the store after the call and the response; the response
\* model is PostPublic
UpdatePost(posts, post_id, body) ==
  LET i == FindIndex(posts, post_id)
  IN  IF ~ PostUpdateValid(body) THEN [posts |-> posts, response |-> Unprocessable]
      ELSE IF i = 0 THEN [posts |-> posts, response |-> NotFound]
      ELSE LET post == UpdatedPost(posts[i], body)
           IN  [posts |-> [posts EXCEPT ![i] = post],
                response |-> IF PostPublicValid(post)
                               THEN [status |-> 200, body |-> post]
                               ELSE ServerError]

\* del BLOG_POST[index]
DeleteAt(posts, index) ==
  SubSeq(posts, 1, index - 1) \o SubSeq(posts, index + 1, Len(posts))

\* A delete that drops the last post when no post has the id
DeletePostDroppingLast(posts, post_id) ==
  LET i == FindIndex(posts, post_id)
  IN  IF i = 0
        THEN [posts |-> DeleteAt(posts, Len(posts)), response |-> NotFound]
        ELSE [posts |-> DeleteAt(posts, i),
              response |-> [status |-> 204, body |-> None]]

\* delete_post: the store after the call and the response
DeletePost(posts, post_id) ==
  LET i == FindIndex(posts, post_id)
  IN  IF i = 0 THEN [posts |-> posts, response |-> NotFound]
      ELSE [posts |-> DeleteAt(posts, i),
            response |-> [status |-> 204, body |-> None]]

---------------------------------------------------------------------------
(* The requests the clients send *)

\* get_posts alone is asked for the pages 1 .. MaxPage, and the pages of
\* PagesBeyond
MaxPage == 3

OrderBys == {"id", "title"}
Directions == {"asc", "desc"}

\* "ab": a search that is too short
QueryShort == <<97, 98>>
\* "SEGUNDO": a search that one seed title holds, in another case
QuerySegundo == <<83, 69, 71, 85, 78, 68, 79>>
\* "post": a search that every seed title holds
QueryPost == <<112, 111, 115, 116>>
\* "xyz": a search that no title holds
QueryNoMatch == <<120, 121, 122>>

\* "Segundo Post", the title post 2 has
TitleSegundo == <<83, 101, 103, 117, 110, 100, 111, 32, 80, 111, 115, 116>>
\* "Nuevo Post"
TitleNuevo == <<78, 117, 101, 118, 111, 32, 80, 111, 115, 116>>
\* "Spam Post"
TitleSpam == <<83, 112, 97, 109, 32, 80, 111, 115, 116>>
\* "ab": a title that is too short
TitleShort == <<97, 98>>
\* "Contenido nuevo"
ContentNew ==
  <<67, 111, 110, 116, 101, 110, 105, 100, 111, 32, 110, 117, 101, 118, 111>>
\* "corto": a content that is too short
ContentShort == <<99, 111, 114, 116, 111>>

\* post_id: a post in the middle of the seed data, the last one, and one
\* beyond it
PostIds == {2, 20, 21}

\* title of a body: not set, null, "Nuevo Post", "Spam Post", "ab"
Titles == {Unset, None, TitleNuevo, TitleSpam, TitleShort}

\* content of a body: not set, "Contenido nuevo", "corto"
Contents == {Unset, ContentNew, ContentShort}

\* tags of a body: none, or the one tag "py"
TagLists == {<<>>, << [name |-> <<112, 121>>] >>}

\* The searches of GET /posts that the service is sent; per_page and page
\* are left to their defaults there
ServiceQueries == {None, QuerySegundo}
DefaultPerPage == 10
DefaultPage == 1

---------------------------------------------------------------------------
(* The service *)

IdsOf(posts) == {posts[i].id : i \in 1..Len(posts)}

Init ==
  /\ BLOG_POST = BLOG_POST_SEED
  /\ request = [op |-> "start"]
  /\ response = [status |-> 0, body |-> None]
  /\ idsSeen = IdsOf(BLOG_POST_SEED)

\* GET /
home ==
  /\ request' = [op |-> "home"]
  /\ response' = [status |-> 200, body |-> "Welcome to the Mini Blog!"]
  /\ UNCHANGED <<BLOG_POST, idsSeen>>

\* GET /posts
get_posts ==
  \E query \in ServiceQueries, order_by \in OrderBys, direction \in Directions :
    /\ request' = [op |-> "get_posts", search |-> query,
                   per_page |-> DefaultPerPage, page |-> DefaultPage,
                   order_by |-> order_by, direction |-> direction]
    /\ response' = GetPostsResponse(BLOG_POST, query, DefaultPerPage,
                                    DefaultPage, order_by, direction)
    /\ UNCHANGED <<BLOG_POST, idsSeen>>

\* GET /posts/{post_id}
get_post ==
  \E post_id \in PostIds, include_content \in BOOLEAN :
    /\ request' = [op |-> "get_post", post_id |-> post_id,
                   include_content |-> include_content]
    /\ response' = GetPostResponse(BLOG_POST, post_id, include_content)
    /\ UNCHANGED <<BLOG_POST, idsSeen>>

\* GET /posts/{post_id}/detail
get_post_detail ==
  \E post_id \in PostIds, include_content \in BOOLEAN :
    /\ request' = [op |-> "get_post_detail", post_id |-> post_id,
                   include_content |-> include_content]
    /\ response' = GetPostDetailResponse(BLOG_POST, post_id, include_content)
    /\ UNCHANGED <<BLOG_POST, idsSeen>>

\* POST /posts
create_post ==
  \E title \in Titles, content \in Contents, tags \in TagLists :
    LET body == [title |-> title, content |-> content, tags |-> tags]
        done == CreatePost(BLOG_POST, body)
    IN  /\ request' = [op |-> "create_post", body |-> body]
        /\ BLOG_POST' = done.posts
        /\ response' = done.response
        /\ idsSeen' = idsSeen \cup IdsOf(done.posts)

\* PUT /posts/{post_id}
update_post ==
  \E post_id \in PostIds, title \in Titles, content \in Contents :
    LET body == [title |-> title, content |-> content]
        done == UpdatePost(BLOG_POST, post_id, body)
    IN  /\ request' = [op |-> "update_post", post_id |-> post_id, body |-> body]
        /\ BLOG_POST' = done.posts
        /\ response' = done.response
        /\ UNCHANGED idsSeen

\* DELETE /posts/{post_id}
delete_post ==
  \E post_id \in PostIds :
    LET done == DeletePost(BLOG_POST, post_id)
    IN  /\ request' = [op |-> "delete_post", post_id |-> post_id]
        /\ BLOG_POST' = done.posts
        /\ response' = done.response
        /\ UNCHANGED idsSeen

Next ==
  \/ home
  \/ get_posts
  \/ get_post
  \/ get_post_detail
  \/ create_post
  \/ update_post
  \/ delete_post

Spec == Init /\ [][Next]_vars

---------------------------------------------------------------------------
(* get_posts alone, over stores the service can be in and a wider range   *)
(* of parameters: one call of the handler on each                         *)

\* The store after delete_post on each id of a .. b, in that order
RECURSIVE DeleteRange(_, _, _)
DeleteRange(posts, a, b) ==
  IF a > b THEN posts
  ELSE DeleteRange(DeletePost(posts, a).posts, a + 1, b)

\* The store after update_post set the title of one post
Retitled(posts, post_id, title) ==
  UpdatePost(posts, post_id, [title |-> title, content |-> Unset]).posts

\* Stores reached from the seed data by delete_post and update_post
Stores ==
  {BLOG_POST_SEED,
   \* the last post takes the title of post 2
   Retitled(BLOG_POST_SEED, 20, TitleSegundo),
   \* three posts of one title
   Retitled(Retitled(BLOG_POST_SEED, 20, TitleSegundo), 11, TitleSegundo),
   \* a title set to null
   Retitled(BLOG_POST_SEED, 2, None),
   \* posts 1, 2, 3
   DeleteRange(BLOG_POST_SEED, 4, 20),
   \* posts 18, 19, 20
   DeleteRange(BLOG_POST_SEED, 1, 17),
   \* post 20 alone, its title null
   DeleteRange(Retitled(BLOG_POST_SEED, 20, None), 1, 19),
   \* no post
   DeleteRange(BLOG_POST_SEED, 1, 20)}

PageQueries == {None, QueryShort, QuerySegundo, QueryPost, QueryNoMatch}

\* per_page: the least, values that leave a short last page, a full last
\* page, one page, and the two nearest values out of range
PagePerPages == {0, 1, 3, 7, 10, 20, 50, 51}

\* page: the first pages, and pages beyond the last of every store
PagesBeyond == {10, 21}
PagePages == (1..MaxPage) \cup PagesBeyond

InitPage ==
  /\ BLOG_POST \in Stores
  /\ \E query \in PageQueries, per_page \in PagePerPages, page \in PagePages,
        order_by \in OrderBys, direction \in Directions :
       request = [op |-> "get_posts", search |-> query, per_page |-> per_page,
                  page |-> page, order_by |-> order_by, direction |-> direction]
  /\ response = [status |-> 0, body |-> None]
  /\ idsSeen = IdsOf(BLOG_POST_SEED)

\* The call of get_posts with the parameters of the request
paginate ==
  /\ response.status = 0
  /\ response' = GetPostsResponse(BLOG_POST, request.search, request.per_page,
                                  request.page, request.order_by,
                                  request.direction)
  /\ UNCHANGED <<BLOG_POST, request, idsSeen>>

NextPage == paginate

SpecPage == InitPage /\ [][NextPage]_vars

---------------------------------------------------------------------------
(* Properties of the store *)

\* The request just served was accepted by the schema of its handler
CreateAccepted(req) == req.op = "create_post" /\ PostCreateValid(req.body)
UpdateAccepted(req) == req.op = "update_post" /\ PostUpdateValid(req.body)
GetPostsAccepted(req) ==
  /\ req.op = "get_posts"
  /\ GetPostsParamsValid(req.search, req.per_page, req.page, req.order_by,
                         req.direction)

\* The greatest id of the store, 0 for no post
MaxIdOf(posts) ==
  IF posts = <<>> THEN 0
  ELSE CHOOSE m \in IdsOf(posts) : \A n \in IdsOf(posts) : n <= m

C2_StoredPostsValid ==
  \A i \in 1..Len(BLOG_POST) :
    LET post == BLOG_POST[i]
    IN  /\ IsStr(post.title)
        /\ LenIn(post.title, 3, 100)
        /\ ~ not_allowed_title(post.title)
        /\ post.content = None \/ LenIn(post.content, 10, 1000)

\* C3: create_post with an accepted body answers 201 and appends exactly one
\* post, whose id is the greatest id of the store plus 1 (1 for the empty
\* store) and whose title, content and tags are those of the body; the posts
\* that were there stay as they were, and the new post is the response.
C3_CreateAppends ==
  [][CreateAccepted(request') =>
       /\ response'.status = 201
       /\ Len(BLOG_POST') = Len(BLOG_POST) + 1
       /\ SubSeq(BLOG_POST', 1, Len(BLOG_POST)) = BLOG_POST
       /\ LET new_post == BLOG_POST'[Len(BLOG_POST')]
              body == request'.body
          IN  /\ new_post.id = MaxIdOf(BLOG_POST) + 1
              /\ new_post.title = body.title
              /\ new_post.content =
                   (IF body.content = Unset THEN None ELSE body.content)
              /\ new_post.tags = body.tags
              /\ response'.body = new_post]_vars

\* C4: get_posts called with parameters inside the schema ranges returns a
\* page (status 200) in every store the accepted requests can produce.
C4_GetPostsNeverFails == GetPostsAccepted(request) => response.status = 200

\* C7: update_post on an id of the store keeps the length and the order of
\* the store and every other post; in the post of that id the fields the
\* body set take the body's values and every other key keeps its value.
C7_UpdateFrame ==
  [][(UpdateAccepted(request') /\ request'.post_id \in IdsOf(BLOG_POST)) =>
       /\ Len(BLOG_POST') = Len(BLOG_POST)
       /\ \A i \in 1..Len(BLOG_POST) :
            IF BLOG_POST[i].id = request'.post_id
              THEN /\ DOMAIN BLOG_POST'[i] = DOMAIN BLOG_POST[i]
                   /\ \A k \in DOMAIN BLOG_POST[i] :
                        BLOG_POST'[i][k] =
                          IF k \in {"title", "content"} /\ request'.body[k] # Unset
                            THEN request'.body[k]
                            ELSE BLOG_POST[i][k]
              ELSE BLOG_POST'[i] = BLOG_POST[i]]_vars

\* An update of post 2 that set the title alone was served: the title is
\* the new one and the content is the one of the seed data.
C7_Witness ==
  /\ request.op = "update_post"
  /\ request.post_id = 2
  /\ request.body = [title |-> TitleNuevo, content |-> Unset]
  /\ response.status = 200
  /\ BLOG_POST[2].title = TitleNuevo
  /\ BLOG_POST[2].content = BLOG_POST_SEED[2].content

\* C8: delete_post, update_post and get_post called with an id no stored
\* post has answer 404 and leave the store as it was.
C8_NotFoundFrame ==
  [][(/\ request'.op \in {"delete_post", "update_post", "get_post"}
      /\ request'.op = "update_post" => PostUpdateValid(request'.body)
      /\ request'.post_id \notin IdsOf(BLOG_POST)) =>
       /\ response'.status = 404
       /\ BLOG_POST' = BLOG_POST]_vars

\* A delete of an id that is not in the store was answered 404, in a store
\* that had lost a post before.
C8_Witness ==
  /\ request.op = "delete_post"
  /\ request.post_id \notin IdsOf(BLOG_POST)
  /\ response = NotFound
  /\ Len(BLOG_POST) < Len(BLOG_POST_SEED)

---------------------------------------------------------------------------
(* Properties of the page get_posts returns *)

Max(a, b) == IF a >= b THEN a ELSE b

\* get_posts returned a page
PageReturned == request.op = "get_posts" /\ response.status = 200

\* C5: a page get_posts returns has total_pages = 0 for no result and the
\* least number of pages of per_page posts that hold them all otherwise, and
\* its page is 1 when there is no page and the lesser of the requested page
\* and total_pages otherwise; so it lies in 1 .. max(1, total_pages).
C5_PageClamped ==
  PageReturned =>
    LET b == response.body
    IN  /\ b.per_page = request.per_page
        /\ b.total = 0 => b.total_pages = 0
        /\ b.total > 0 => /\ b.total_pages * b.per_page >= b.total
                          /\ (b.total_pages - 1) * b.per_page < b.total
        /\ b.page = (IF b.total_pages = 0 THEN 1
                     ELSE Min(request.page, b.total_pages))
        /\ b.page >= 1
        /\ b.page <= Max(1, b.total_pages)

\* A request for a page beyond the last of several was answered with the
\* last page.
C5_Witness ==
  /\ PageReturned
  /\ response.body.total_pages >= 2
  /\ request.page > response.body.total_pages
  /\ response.body.page = response.body.total_pages

\* C6: in a page get_posts returns, has_next is set exactly when page is less
\* than total_pages and has_prev exactly when page is greater than 1; neither
\* is set when there is no result or the results fit on one page.
C6_Flags ==
  PageReturned =>
    LET b == response.body
    IN  /\ b.has_next <=> b.page < b.total_pages
        /\ b.has_prev <=> b.page > 1
        /\ (b.total = 0 \/ b.total <= b.per_page) => ~ b.has_next /\ ~ b.has_prev

\* A page in the middle was returned: both flags are set.
C6_Witness ==
  /\ PageReturned
  /\ response.body.has_prev
  /\ response.body.has_next
  /\ response.body.page > 1
  /\ response.body.page < response.body.total_pages

\* The posts of the store the search keeps, sorted as the request asks
ExpectedResults ==
  SortResults(FilterPosts(BLOG_POST, request.search), request.order_by,
              request.direction)

\* What get_posts answers for page p and the other parameters of the request
PageAnswer(p) ==
  GetPostsResponse(BLOG_POST, request.search, request.per_page, p,
                   request.order_by, request.direction)

\* The items of pages 1 .. n, one after the other
RECURSIVE ItemsUpTo(_)
ItemsUpTo(n) ==
  IF n = 0 THEN <<>> ELSE ItemsUpTo(n - 1) \o PageAnswer(n).body.items

\* C9: with the search, per_page, order_by and direction of a returned page,
\* every page 1 .. total_pages that get_posts returns holds between 1 and
\* per_page items, fewer than per_page only on the last page, and they are
\* the filtered and sorted posts at the places of that page; when all the
\* pages are returned, their items one after the other are the filtered and
\* sorted posts, each post the search keeps being on exactly one page.
C9_PagesPartition ==
  PageReturned =>
    LET b == response.body
        per_page == b.per_page
        returned == {p \in 1..b.total_pages : PageAnswer(p).status = 200}
    IN  /\ b.total = Len(ExpectedResults)
        /\ \A p \in returned :
             LET items == PageAnswer(p).body.items
             IN  /\ Len(items) >= 1
                 /\ Len(items) <= per_page
                 /\ Len(items) < per_page => p = b.total_pages
                 /\ \A k \in 1..Len(items) :
                      items[k] = PostPublicOf(ExpectedResults[(p - 1) * per_page + k])
        /\ returned = 1..b.total_pages =>
             LET all == ItemsUpTo(b.total_pages)
             IN  /\ all = [i \in 1..Len(ExpectedResults) |->
                             PostPublicOf(ExpectedResults[i])]
                 /\ \A i \in 1..Len(BLOG_POST) :
                      LET kept == \/ ~ QueryGiven(request.search)
                                  \/ Contains(StrLower(request.search),
                                              StrLower(BLOG_POST[i].title))
                          places == {k \in 1..Len(all) : all[k].id = BLOG_POST[i].id}
                      IN  Cardinality(places) = (IF kept THEN 1 ELSE 0)

\* The last of three or more pages was returned, and it is a short one.
C9_Witness ==
  /\ PageReturned
  /\ response.body.total_pages >= 3
  /\ response.body.page = response.body.total_pages
  /\ Len(response.body.items) >= 1
  /\ Len(response.body.items) < response.body.per_page

\* The place of the post of this id in the store
PlaceOf(id) == CHOOSE i \in 1..Len(BLOG_POST) : BLOG_POST[i].id = id

\* Two items have the same value of the order_by field
SameKey(a, b) ==
  IF request.order_by = "id" THEN a.id = b.id ELSE a.title = b.title

\* C10: the items of a page get_posts returns are in non-decreasing order of
\* the order_by field for direction asc and in non-increasing order for desc,
\* and in both directions two items of equal order_by value are in the order
\* they have in the store.
C10_SortedStable ==
  PageReturned =>
    LET items == response.body.items
    IN  \A i, j \in 1..Len(items) :
          i < j =>
            /\ request.direction = "asc" =>
                 ~ KeyLess(items[j], items[i], request.order_by)
            /\ request.direction = "desc" =>
                 ~ KeyLess(items[i], items[j], request.order_by)
            /\ SameKey(items[i], items[j]) =>
                 PlaceOf(items[i].id) < PlaceOf(items[j].id)

\* A page sorted by title, descending, was returned with two posts of one
\* title next to each other.
C10_Witness ==
  /\ PageReturned
  /\ request.order_by = "title"
  /\ request.direction = "desc"
  /\ \E i \in 1..(Len(response.body.items) - 1) :
       /\ response.body.items[i].title = response.body.items[i + 1].title
       /\ response.body.items[i].id < response.body.items[i + 1].id

=============================================================================
